---------------------------- MODULE Spec2Model ----------------------------
(***************************************************************************)
(* A model of ETL_project/advanced_fraud_pipeline.py: the Prefect flow     *)
(* advanced_fraud_flow, its tasks load_data, enrich_and_flag_aml, cross_ref *)
(* (inside risk_flagging_subflow) and load_to_duckdb, the task cache, the  *)
(* Spark session the loaders open and stop, and the DuckDB store.          *)
(*                                                                         *)
(* The flow calls its tasks directly (no .submit), so each call blocks     *)
(* until the task run reaches a final state: one task body runs at a time. *)
(***************************************************************************)
EXTENDS Integers, Sequences, FiniteSets, TLC

\* ------------------------------------------------------------- bounds
\* Flow runs (the deployment is served daily; the flow can also be called).
MaxRuns == 2
\* The clock is counted in days and stops at MaxDay.
MaxDay == 1
\* The rows a drawn transaction table holds after its first one.
MaxMoreRows == 2

\* -------------------------------------------------- program constants
LoadRetries == 3
EnrichRetries == 2
CrossRefRetries == 0
SinkRetries == 1
FlowRetries == 2
\* cache_expiration=timedelta(days=1)
CacheExpirationDays == 1
HighAmountLimit == 1000000
NightBeforeHour == 6
NightAfterHour == 21
\* approxQuantile("amount", [0.95], 0.01), in hundredths
QuantilePct == 95
QuantileErrPct == 1

NoValue == "none"

\* ------------------------------------------------------------- tasks
Loaders == {"paysim", "aml", "currency"}
Tasks == Loaders \cup {"enrich", "crossref", "sink"}

\* FlowOrder with enrich_and_flag_aml called before the currency load.
FlowOrderEnrichEarly == <<"paysim", "aml", "enrich", "currency", "crossref", "sink">>

\* The order in which advanced_fraud_flow calls its tasks.
FlowOrder == <<"paysim", "aml", "currency", "enrich", "crossref", "sink">>

\* RetryBudget with load_data's retries=3 on every task.
RetryBudgetAllLoad(t) == LoadRetries

\* @task(retries=...) of each task; cross_ref is a bare @task.
RetryBudget(t) ==
  CASE t \in Loaders -> LoadRetries
    [] t = "enrich" -> EnrichRetries
    [] t = "crossref" -> CrossRefRetries
    [] t = "sink" -> SinkRetries

\* @task(timeout_seconds=600) is set on load_data and load_to_duckdb only.
HasTimeout(t) == t \in Loaders \cup {"sink"}

\* file_path of each load_data call: base_path plus a fixed file name.
FilePath(t) ==
  CASE t = "paysim" -> "fraud_detection.parquet"
    [] t = "aml" -> "HI-Small_Trans.csv"
    [] t = "currency" -> "currency.json"

FilePaths == {FilePath(t) : t \in Loaders}

\* cache_key_fn=lambda _, params: params.get("file_path")
CacheKey(source, file_path) == file_path


\* ------------------------------------------------------ source files
\* What the three files can hold (the pipeline reads them, never writes them).
NoHour == -1

PaysimFiles ==
  << << [amount |-> 1500000, isFraud |-> 1], [amount |-> 900, isFraud |-> 0] >>,
     << [amount |-> 700, isFraud |-> 0] >> >>

AmlFiles ==
  << << [Timestamp |-> [hour |-> 3, valid |-> TRUE], AmountPaid |-> 2000000,
         PaymentCurrency |-> "USD"],
        [Timestamp |-> [hour |-> 12, valid |-> TRUE], AmountPaid |-> 500,
         PaymentCurrency |-> "US Dollar"] >>,
     << [Timestamp |-> [hour |-> 22, valid |-> FALSE], AmountPaid |-> 1000000,
         PaymentCurrency |-> "Euro"] >> >>

CurrencyFiles ==
  << << [currency_code |-> "USD", currency_name |-> "US Dollar"] >>,
     << [currency_code |-> "USD", currency_name |-> "US Dollar"],
        [currency_code |-> "EUR", currency_name |-> "Euro"] >> >>

FileVersions(path) ==
  CASE path = "fraud_detection.parquet" -> DOMAIN PaysimFiles
    [] path = "HI-Small_Trans.csv" -> DOMAIN AmlFiles
    [] path = "currency.json" -> DOMAIN CurrencyFiles

\* spark.read of one file: parquet, csv with header, or the JSON map exploded
\* into (currency_code, currency_name) rows. v is what the file holds now.
ReadSource(source, v) ==
  CASE source = "paysim" -> PaysimFiles[v]
    [] source = "aml" -> AmlFiles[v]
    [] source = "currency" -> CurrencyFiles[v]

\* ----------------------------------------------------- enrichment
RECURSIVE SelectSeq2(_, _, _)
\* The rows of cur whose currency_name equals name, in order.
SelectSeq2(cur, name, i) ==
  IF i > Len(cur) THEN << >>
  ELSE (IF cur[i].currency_name = name THEN << cur[i] >> ELSE << >>)
         \o SelectSeq2(cur, name, i + 1)

\* JoinRow of an inner join: a row with no match is dropped.
JoinRowInner(row, matches) ==
  [k \in 1..Len(matches) |->
     [Timestamp |-> row.Timestamp, AmountPaid |-> row.AmountPaid,
      PaymentCurrency |-> row.PaymentCurrency,
      currency_code |-> matches[k].currency_code,
      currency_name |-> matches[k].currency_name]]

\* One left row joined to its matches; a row with no match is kept with nulls.
JoinRow(row, matches) ==
  IF matches = << >>
  THEN << [Timestamp |-> row.Timestamp, AmountPaid |-> row.AmountPaid,
           PaymentCurrency |-> row.PaymentCurrency,
           currency_code |-> NoValue, currency_name |-> NoValue] >>
  ELSE [k \in 1..Len(matches) |->
          [Timestamp |-> row.Timestamp, AmountPaid |-> row.AmountPaid,
           PaymentCurrency |-> row.PaymentCurrency,
           currency_code |-> matches[k].currency_code,
           currency_name |-> matches[k].currency_name]]

RECURSIVE LeftJoin(_, _, _)
\* aml_df.join(currency_df, aml["Payment Currency"] == cur["currency_name"], "left")
LeftJoin(aml, cur, i) ==
  IF i > Len(aml) THEN << >>
  ELSE JoinRow(aml[i], SelectSeq2(cur, aml[i].PaymentCurrency, 1))
         \o LeftJoin(aml, cur, i + 1)

\* to_timestamp("Timestamp", "yyyy/MM/dd HH:mm") then hour(...): null when the
\* string does not parse.
HourOf(ts) == IF ts.valid THEN ts.hour ELSE NoHour

\* NightFlag with hour >= 21 in place of hour > 21.
NightFlagFrom21(h) ==
  IF h # NoHour /\ (h < NightBeforeHour \/ h >= NightAfterHour) THEN 1 ELSE 0

\* when((hour < 6) | (hour > 21), 1).otherwise(0); a null hour gives 0.
NightFlag(h) ==
  IF h # NoHour /\ (h < NightBeforeHour \/ h > NightAfterHour) THEN 1 ELSE 0

\* HighAmountFlag with >= in place of >.
HighAmountFlagInclusive(a) == IF a >= HighAmountLimit THEN 1 ELSE 0

\* when(col("Amount Paid") > 1_000_000, 1).otherwise(0)
HighAmountFlag(a) == IF a > HighAmountLimit THEN 1 ELSE 0

\* when(col("high_amount_flag") == 1, 1).otherwise(0)
AmlAlertFlag(high) == IF high = 1 THEN 1 ELSE 0

EnrichRow(r) ==
  [AmountPaid |-> r.AmountPaid, PaymentCurrency |-> r.PaymentCurrency,
   currency_code |-> r.currency_code, currency_name |-> r.currency_name,
   hour |-> HourOf(r.Timestamp),
   is_night_transaction |-> NightFlag(HourOf(r.Timestamp)),
   high_amount_flag |-> HighAmountFlag(r.AmountPaid),
   aml_alert_flag |-> AmlAlertFlag(HighAmountFlag(r.AmountPaid))]

Enrich(aml, cur) ==
  LET j == LeftJoin(aml, cur, 1) IN [k \in 1..Len(j) |-> EnrichRow(j[k])]

\* -------------------------------------------------- cross-reference
\* paysim.filter("isFraud == 1"), as the bag of its amounts (by row index).
FraudRows(paysim) == {i \in 1..Len(paysim) : paysim[i].isFraud = 1}

\* approxQuantile("amount", [0.95], 0.01): the list it returns holds one value
\* whose rank lies within the relative error of the exact one, and is empty
\* for an empty dataframe. Every value it may return is in this set.
ApproxQuantile(paysim) ==
  LET F == FraudRows(paysim)
      n == Cardinality(F)
      lo == IF (((QuantilePct - QuantileErrPct) * n) \div 100) < 1 THEN 1
            ELSE ((QuantilePct - QuantileErrPct) * n) \div 100
      hi == IF (((QuantilePct + QuantileErrPct) * n + 99) \div 100) > n THEN n
            ELSE ((QuantilePct + QuantileErrPct) * n + 99) \div 100
      Below(x) == Cardinality({i \in F : paysim[i].amount < x})
      UpTo(x) == Cardinality({i \in F : paysim[i].amount <= x})
  IN {paysim[i].amount : i \in {j \in F :
         /\ Below(paysim[j].amount) + 1 <= hi
         /\ UpTo(paysim[j].amount) >= lo}}

\* aml.withColumn("paysim_high_risk", when(col("Amount Paid") > threshold, 1).otherwise(0))
CrossRefRow(r, threshold) ==
  [AmountPaid |-> r.AmountPaid, PaymentCurrency |-> r.PaymentCurrency,
   currency_code |-> r.currency_code, currency_name |-> r.currency_name,
   hour |-> r.hour, is_night_transaction |-> r.is_night_transaction,
   high_amount_flag |-> r.high_amount_flag, aml_alert_flag |-> r.aml_alert_flag,
   paysim_high_risk |-> IF r.AmountPaid > threshold THEN 1 ELSE 0]

CrossRefTable(enriched, threshold) ==
  [k \in 1..Len(enriched) |-> CrossRefRow(enriched[k], threshold)]

\* ------------------------------------------------------------- sink
\* IsAlert with the AML flag alone.
IsAlertAmlOnly(r) == r.aml_alert_flag = 1

\* WHERE aml_alert_flag = 1 OR paysim_high_risk = 1
IsAlert(r) == r.aml_alert_flag = 1 \/ r.paysim_high_risk = 1

RECURSIVE InsertDesc(_, _)
InsertDesc(r, s) ==
  IF s = << >> THEN << r >>
  ELSE IF r.AmountPaid >= Head(s).AmountPaid THEN << r >> \o s
  ELSE << Head(s) >> \o InsertDesc(r, Tail(s))

RECURSIVE SortDesc(_)
\* ORDER BY "Amount Paid" DESC
SortDesc(s) == IF s = << >> THEN << >> ELSE InsertDesc(Head(s), SortDesc(Tail(s)))

\* high_risk_alerts is a view: it is evaluated over fraud_transactions as it is.
HighRiskAlerts(table) == SortDesc(SelectSeq(table, IsAlert))


\* ------------------------------------------------------------ state
\* An absent value (None, an unbound local, a table that does not exist).
None == [none |-> TRUE]
\* No threshold was computed.
NoThreshold == -1
\* A table or a Parquet directory that does not exist; Stored(rows) is one
\* that holds rows.
NoTable == << >>
Stored(rows) == << rows >>
Rows(t) == t[1]

VARIABLES
  run,            \* the number of the flow run (1 = the first one served)
  day,            \* the clock, in days
  files,          \* what each source file holds now (a version of it)
  flowState,      \* "Running", "Completed" or "Failed" (final)
  flowAttempt,    \* how often this flow run was retried (@flow(retries=2))
  flowpc,         \* the call of FlowOrder the flow function is at
  st,             \* st[t]: the state of task t's run in this flow attempt
  runCount,       \* the executions of its body by the task run the flow waits for
  out,            \* out[t]: the value the call of t returned
  pc,             \* the statement the running task body is at ("idle": none)
  exc,            \* the exception in flight inside the running body
  df,             \* load_data's local df
  using,          \* load_data's local spark: the session it obtained
  threshold,      \* cross_ref's local fraud_threshold
  conBound,       \* load_to_duckdb's local con is bound
  alert_count,    \* load_to_duckdb's local alert_count
  activeSession,  \* the process's active Spark session
  cache,          \* the task cache: cache key -> [table, day]
  tempDir,        \* temp_final_parquet exists
  staged,         \* the Parquet files the running load_to_duckdb wrote there
  table,          \* the store's table fraud_transactions
  viewDefined,    \* the store's view high_risk_alerts exists
  conOpen,        \* a DuckDB connection is open
  report,         \* the counts load_to_duckdb logged last
  lastErr,        \* the exception held by the Failed state of a task run
  cause,          \* history: the exception first raised in that task's body
  didRead,        \* history: this attempt's run of loader t read its source
  committed       \* history: the table as the last successful sink left it

vars == << run, day, files, flowState, flowAttempt, flowpc, st, runCount, out,
           pc, exc, df, using, threshold, conBound, alert_count, activeSession,
           cache, tempDir, staged, table, viewDefined, conOpen, report, lastErr,
           cause, didRead, committed >>

flowVars == << run, flowState, flowAttempt >>
envVars == << day, files >>
\* What a task run's end or retry changes.
runVars == << st, out, flowpc, runCount, cache, lastErr >>
\* The locals of load_data, of cross_ref and of load_to_duckdb.
loadLocals == << df, using >>
sinkLocals == << conBound, alert_count, staged >>
localVars == << df, using, threshold, conBound, alert_count, staged >>
storeVars == << tempDir, table, viewDefined, conOpen, report, committed >>

Init ==
  /\ run = 1
  /\ day = 0
  /\ files = [p \in FilePaths |-> 1]
  /\ flowState = "Running"
  /\ flowAttempt = 0
  /\ flowpc = 1
  /\ st = [t \in Tasks |-> "Pending"]
  /\ runCount = 0
  /\ out = [t \in Tasks |-> None]
  /\ pc = "idle"
  /\ exc = NoValue
  /\ df = None
  /\ using = NoValue
  /\ threshold = NoThreshold
  /\ conBound = FALSE
  /\ alert_count = 0
  /\ activeSession = NoValue
  /\ cache = [p \in FilePaths |-> None]
  /\ tempDir = FALSE
  /\ staged = NoTable
  /\ table = NoTable
  /\ viewDefined = FALSE
  /\ conOpen = FALSE
  /\ report = None
  /\ lastErr = NoValue
  /\ cause = NoValue
  /\ didRead = [t \in Loaders |-> FALSE]
  /\ committed = NoTable

\* ------------------------------------------------- the orchestrator
\* The call the flow function is at, or "done" after the last one.
CurrentCall == IF flowpc <= Len(FlowOrder) THEN FlowOrder[flowpc] ELSE "done"

\* The first statement of a task's body.
FirstStep(t) ==
  CASE t \in Loaders -> "getOrCreate"
    [] t = "enrich" -> "join"
    [] t = "crossref" -> "approxQuantile"
    [] t = "sink" -> "makedirs"

\* CacheValid without cache_expiration: a cached result never expires.
CacheValidForever(key) == cache[key] # None

\* A cached result is used while its expiration (cache_expiration) lies ahead.
CacheValid(key) ==
  /\ cache[key] # None
  /\ day < cache[key].day + CacheExpirationDays

\* CanStart with the three load_data calls submitted to the task runner
\* (load_data.submit): a load can start while another task's body runs.
CanStartSubmitted(t) ==
  /\ flowState = "Running"
  /\ st[t] = "Pending"
  /\ \/ pc = "idle" /\ CurrentCall = t
     \/ t \in Loaders /\ flowpc <= 3

\* A call of a task in the flow function blocks: the flow is at that call and
\* no other body runs.
CanStart(t) ==
  /\ flowState = "Running"
  /\ pc = "idle"
  /\ CurrentCall = t
  /\ st[t] = "Pending"

\* The exceptions a statement of t's body can raise: its own failure, and the
\* timeout of a task that has one.
Raises(t, e) == {e} \cup (IF HasTimeout(t) THEN {"TimeoutError"} ELSE {})

\* The body ended: its locals are gone.
LocalsGone ==
  /\ df' = None
  /\ using' = NoValue
  /\ threshold' = NoThreshold
  /\ conBound' = FALSE
  /\ alert_count' = 0
  /\ staged' = NoTable

\* The body goes on with its statement next.
Step(next) ==
  /\ pc' = next
  /\ UNCHANGED runVars

\* No exception is raised by the statement.
NoRaise == UNCHANGED << exc, cause >>

\* A statement inside a try block raises e: the except clause logs it and
\* raises it again, and the finally clause is next.
RaiseInTry(e) ==
  /\ exc' = e
  /\ cause' = e
  /\ Step("finally")

\* The task run ends Completed: the call returns v to the flow function, and
\* a loader's result is cached under its cache key.
TaskSucceeds(t, v) ==
  /\ LocalsGone
  /\ st' = [st EXCEPT ![t] = "Succeeded"]
  /\ out' = [out EXCEPT ![t] = v]
  /\ pc' = "idle"
  /\ exc' = NoValue
  /\ flowpc' = flowpc + 1
  /\ runCount' = 0
  /\ cache' = IF t \in Loaders
              THEN [cache EXCEPT ![CacheKey(t, FilePath(t))] =
                      [table |-> v, day |-> day]]
              ELSE cache
  /\ UNCHANGED << lastErr, cause >>

\* The exception e leaves the body: the task run is Failed. first is the
\* exception the body raised first.
TaskFails(t, e, first) ==
  /\ LocalsGone
  /\ st' = [st EXCEPT ![t] = "Failed"]
  /\ lastErr' = e
  /\ cause' = first
  /\ pc' = "idle"
  /\ exc' = NoValue
  /\ UNCHANGED << out, flowpc, runCount, cache >>

\* Pending -> Running, with no valid cached result for the task's cache key.
StartTask(t) ==
  /\ CanStart(t)
  /\ t \in Loaders => ~CacheValid(CacheKey(t, FilePath(t)))
  /\ st' = [st EXCEPT ![t] = "Running"]
  /\ runCount' = runCount + 1
  /\ pc' = FirstStep(t)
  /\ UNCHANGED << flowVars, envVars, flowpc, out, cache, lastErr, exc, cause,
                  localVars, activeSession, storeVars, didRead >>

\* Pending -> Succeeded on a cache hit: the body is not run.
CacheHit(t) ==
  /\ t \in Loaders
  /\ CanStart(t)
  /\ CacheValid(CacheKey(t, FilePath(t)))
  /\ st' = [st EXCEPT ![t] = "Succeeded"]
  /\ out' = [out EXCEPT ![t] = cache[CacheKey(t, FilePath(t))].table]
  /\ flowpc' = flowpc + 1
  /\ runCount' = 0
  /\ UNCHANGED << flowVars, envVars, cache, lastErr, pc, exc, cause, localVars,
                  activeSession, storeVars, didRead >>

\* A Failed task run with retries left is scheduled again.
RetryTask(t) ==
  /\ st[t] = "Failed"
  /\ runCount <= RetryBudget(t)
  /\ st' = [st EXCEPT ![t] = "Pending"]
  /\ lastErr' = NoValue
  /\ cause' = NoValue
  /\ UNCHANGED << flowVars, envVars, flowpc, runCount, out, cache, pc, exc,
                  localVars, activeSession, storeVars, didRead >>

\* ExhaustTask with the exception swallowed: the flow function goes on to its
\* next call.
ExhaustTaskSwallowed(t) ==
  /\ st[t] = "Failed"
  /\ runCount > RetryBudget(t)
  /\ st' = [st EXCEPT ![t] = "FatallyFailed"]
  /\ flowpc' = flowpc + 1
  /\ runCount' = 0
  /\ UNCHANGED << flowVars, envVars, out, cache, lastErr, pc, exc, cause,
                  localVars, activeSession, storeVars, didRead >>

\* A Failed task run with no retry left is final: the call raises in the flow.
ExhaustTask(t) ==
  /\ st[t] = "Failed"
  /\ runCount > RetryBudget(t)
  /\ st' = [st EXCEPT ![t] = "FatallyFailed"]
  /\ UNCHANGED << flowVars, envVars, flowpc, runCount, out, cache, lastErr, pc,
                  exc, cause, localVars, activeSession, storeVars, didRead >>

AnyFatal == \E t \in Tasks : st[t] = "FatallyFailed"

\* The flow function raised and the flow run has retries left: the flow
\* function is run again, with new task runs.
FlowRetry ==
  /\ flowState = "Running"
  /\ AnyFatal
  /\ flowAttempt < FlowRetries
  /\ flowAttempt' = flowAttempt + 1
  /\ flowpc' = 1
  /\ st' = [t \in Tasks |-> "Pending"]
  /\ runCount' = 0
  /\ out' = [t \in Tasks |-> None]
  /\ didRead' = [t \in Loaders |-> FALSE]
  /\ lastErr' = NoValue
  /\ cause' = NoValue
  /\ report' = None
  /\ UNCHANGED << run, flowState, envVars, cache, pc, exc, localVars,
                  activeSession, tempDir, table, viewDefined, conOpen,
                  committed >>

\* The flow function raised and no flow retry is left: the run is Failed.
FlowFail ==
  /\ flowState = "Running"
  /\ AnyFatal
  /\ flowAttempt >= FlowRetries
  /\ flowState' = "Failed"
  /\ UNCHANGED << run, flowAttempt, envVars, runVars, pc, exc, cause,
                  localVars, activeSession, storeVars, didRead >>

\* load_to_duckdb returned: the flow logs its completion and returns.
FlowComplete ==
  /\ flowState = "Running"
  /\ CurrentCall = "done"
  /\ flowState' = "Completed"
  /\ UNCHANGED << run, flowAttempt, envVars, runVars, pc, exc, cause,
                  localVars, activeSession, storeVars, didRead >>

\* ---------------------------------------------------------- load_data
\* The session a run of load_data creates when none is active, named after
\* the call that creates it (each call stops its session before it ends, so a
\* call's earlier sessions are all stopped).
NewSession(t) == t

\* spark = SparkSession.builder.appName("FraudLoad").getOrCreate(), before
\* the try: the active session if there is one, a new one otherwise.
load_data_getOrCreate(t) ==
  /\ t \in Loaders /\ st[t] = "Running" /\ pc = "getOrCreate"
  /\ \/ /\ using' = IF activeSession # NoValue THEN activeSession ELSE NewSession(t)
        /\ activeSession' = using'
        /\ Step("read")
        /\ NoRaise
        /\ UNCHANGED << df, threshold, sinkLocals >>
     \/ /\ TaskFails(t, "SessionError", "SessionError")
        /\ UNCHANGED activeSession
  /\ UNCHANGED << flowVars, envVars, storeVars, didRead >>

\* df = spark.read...(file_path) for the source kind.
load_data_read(t) ==
  /\ t \in Loaders /\ st[t] = "Running" /\ pc = "read"
  /\ didRead' = [didRead EXCEPT ![t] = TRUE]
  /\ \/ /\ df' = [rows |-> ReadSource(t, files[FilePath(t)]), session |-> using]
        /\ Step("count")
        /\ NoRaise
     \/ /\ \E e \in Raises(t, "ReadError") : RaiseInTry(e)
        /\ UNCHANGED df
  /\ UNCHANGED << flowVars, envVars, using, threshold, sinkLocals,
                  activeSession, storeVars >>

\* logger.info(f"... {df.count()} rows"); return df
load_data_count(t) ==
  /\ t \in Loaders /\ st[t] = "Running" /\ pc = "count"
  /\ \/ Step("finally") /\ NoRaise
     \/ \E e \in Raises(t, "CountError") : RaiseInTry(e)
  /\ UNCHANGED << flowVars, envVars, localVars, activeSession, storeVars,
                  didRead >>

\* load_data_finally with spark.stop() at the end of the try block instead:
\* it is skipped when an exception is in flight.
load_data_stop_in_try(t) ==
  /\ t \in Loaders /\ st[t] = "Running" /\ pc = "finally"
  /\ activeSession' = IF exc = NoValue THEN NoValue ELSE activeSession
  /\ IF exc = NoValue THEN TaskSucceeds(t, df) ELSE TaskFails(t, exc, cause)
  /\ UNCHANGED << flowVars, envVars, storeVars, didRead >>

\* finally: spark.stop(), which stops the process's Spark context; then the
\* return or the raise that was pending takes place.
load_data_finally(t) ==
  /\ t \in Loaders /\ st[t] = "Running" /\ pc = "finally"
  /\ activeSession' = NoValue
  /\ IF exc = NoValue THEN TaskSucceeds(t, df) ELSE TaskFails(t, exc, cause)
  /\ UNCHANGED << flowVars, envVars, storeVars, didRead >>

\* ------------------------------------------------ enrich_and_flag_aml
\* The join and the withColumn chain; a failure is logged and raised again.
enrich_and_flag_aml(aml_df, currency_df) ==
  /\ st["enrich"] = "Running" /\ pc = "join"
  /\ \/ TaskSucceeds("enrich", [rows |-> Enrich(aml_df.rows, currency_df.rows),
                                session |-> aml_df.session])
     \/ \E e \in Raises("enrich", "EnrichError") : TaskFails("enrich", e, e)
  /\ UNCHANGED << flowVars, envVars, activeSession, storeVars, didRead >>

\* ------------------------------------ risk_flagging_subflow, cross_ref
\* fraud_threshold = paysim.filter("isFraud == 1").approxQuantile(...)[0]:
\* indexing the empty list raises IndexError.
cross_ref_threshold(paysim) ==
  /\ st["crossref"] = "Running" /\ pc = "approxQuantile"
  /\ \/ /\ ApproxQuantile(paysim.rows) # {}
        /\ \E q \in ApproxQuantile(paysim.rows) : threshold' = q
        /\ Step("withColumn")
        /\ NoRaise
        /\ UNCHANGED << loadLocals, sinkLocals >>
     \/ /\ ApproxQuantile(paysim.rows) = {}
        /\ TaskFails("crossref", "IndexError", "IndexError")
     \/ \E e \in Raises("crossref", "QuantileError") : TaskFails("crossref", e, e)
  /\ UNCHANGED << flowVars, envVars, activeSession, storeVars, didRead >>

\* return aml.withColumn("paysim_high_risk", ...)
cross_ref_flag(aml) ==
  /\ st["crossref"] = "Running" /\ pc = "withColumn"
  /\ \/ TaskSucceeds("crossref", [rows |-> CrossRefTable(aml.rows, threshold),
                                  session |-> aml.session])
     \/ \E e \in Raises("crossref", "FlagError") : TaskFails("crossref", e, e)
  /\ UNCHANGED << flowVars, envVars, activeSession, storeVars, didRead >>

\* ------------------------------------------------------ load_to_duckdb
\* What no statement of load_to_duckdb changes.
SinkFrame ==
  UNCHANGED << flowVars, envVars, loadLocals, threshold, activeSession, didRead >>

\* os.makedirs(temp_dir, exist_ok=True), before the try.
load_to_duckdb_makedirs ==
  /\ st["sink"] = "Running" /\ pc = "makedirs"
  /\ \/ /\ tempDir' = TRUE
        /\ Step("write")
        /\ NoRaise
        /\ UNCHANGED << loadLocals, threshold, sinkLocals >>
     \/ /\ \E e \in Raises("sink", "MakedirsError") : TaskFails("sink", e, e)
        /\ UNCHANGED tempDir
  /\ UNCHANGED << flowVars, envVars, activeSession, didRead, table,
                  viewDefined, conOpen, report, committed >>

\* final_df.write.mode("overwrite").parquet(temp_dir)
load_to_duckdb_write(final_df) ==
  /\ st["sink"] = "Running" /\ pc = "write"
  /\ \/ /\ staged' = Stored(final_df.rows)
        /\ Step("connect")
        /\ NoRaise
     \/ /\ \E e \in Raises("sink", "WriteError") : RaiseInTry(e)
        /\ UNCHANGED staged
  /\ UNCHANGED << conBound, alert_count, storeVars >>
  /\ SinkFrame

\* con = duckdb.connect(db_path)
load_to_duckdb_connect ==
  /\ st["sink"] = "Running" /\ pc = "connect"
  /\ \/ /\ conBound' = TRUE
        /\ conOpen' = TRUE
        /\ Step("createTable")
        /\ NoRaise
     \/ /\ \E e \in Raises("sink", "ConnectError") : RaiseInTry(e)
        /\ UNCHANGED << conBound, conOpen >>
  /\ UNCHANGED << alert_count, staged, tempDir, table, viewDefined, report,
                  committed >>
  /\ SinkFrame

\* CREATE OR REPLACE TABLE fraud_transactions AS SELECT * FROM read_parquet(...):
\* one statement, which replaces the table or leaves it.
load_to_duckdb_createTable ==
  /\ st["sink"] = "Running" /\ pc = "createTable"
  /\ \/ /\ table' = staged
        /\ Step("createView")
        /\ NoRaise
     \/ /\ \E e \in Raises("sink", "CreateTableError") : RaiseInTry(e)
        /\ UNCHANGED table
  /\ UNCHANGED << sinkLocals, tempDir, viewDefined, conOpen, report, committed >>
  /\ SinkFrame

\* CREATE OR REPLACE VIEW high_risk_alerts AS SELECT ... ORDER BY "Amount Paid" DESC
load_to_duckdb_createView ==
  /\ st["sink"] = "Running" /\ pc = "createView"
  /\ \/ /\ viewDefined' = TRUE
        /\ Step("countAlerts")
        /\ NoRaise
     \/ /\ \E e \in Raises("sink", "CreateViewError") : RaiseInTry(e)
        /\ UNCHANGED viewDefined
  /\ UNCHANGED << sinkLocals, tempDir, table, conOpen, report, committed >>
  /\ SinkFrame

\* alert_count = con.execute("SELECT COUNT(*) FROM high_risk_alerts").fetchone()[0]
load_to_duckdb_countAlerts ==
  /\ st["sink"] = "Running" /\ pc = "countAlerts"
  /\ \/ /\ alert_count' = Len(HighRiskAlerts(Rows(table)))
        /\ Step("countTotal")
        /\ NoRaise
     \/ /\ \E e \in Raises("sink", "CountAlertsError") : RaiseInTry(e)
        /\ UNCHANGED alert_count
  /\ UNCHANGED << conBound, staged, storeVars >>
  /\ SinkFrame

\* total_count = con.execute("SELECT COUNT(*) FROM fraud_transactions")...;
\* then both counts are logged.
load_to_duckdb_countTotal ==
  /\ st["sink"] = "Running" /\ pc = "countTotal"
  /\ \/ /\ report' = [total |-> Len(Rows(table)), alerts |-> alert_count]
        /\ Step("finally")
        /\ NoRaise
     \/ /\ \E e \in Raises("sink", "CountTotalError") : RaiseInTry(e)
        /\ UNCHANGED report
  /\ UNCHANGED << sinkLocals, tempDir, table, viewDefined, conOpen, committed >>
  /\ SinkFrame

\* finally: con.close(). With con unbound the name lookup raises
\* UnboundLocalError, which replaces the exception in flight.
load_to_duckdb_finally ==
  /\ st["sink"] = "Running" /\ pc = "finally"
  /\ IF conBound
     THEN /\ conOpen' = FALSE
          /\ IF exc = NoValue
             THEN TaskSucceeds("sink", None) /\ committed' = table
             ELSE TaskFails("sink", exc, cause) /\ UNCHANGED committed
     ELSE /\ TaskFails("sink", "UnboundLocalError", cause)
          /\ UNCHANGED << conOpen, committed >>
  /\ UNCHANGED << flowVars, envVars, activeSession, didRead, tempDir, table,
                  viewDefined, report >>

\* ------------------------------------------------------- blocked calls
\* The statements that run a Spark job or a DuckDB statement: such a call may
\* not return (the engine or the store hangs).
BlockingCalls ==
  {"read", "count", "approxQuantile", "write", "connect", "createTable",
   "createView", "countAlerts", "countTotal"}

\* The call the body of t is at does not return.
Blocked(t) ==
  /\ st[t] = "Running" /\ pc \in BlockingCalls
  /\ pc' = "blocked"
  /\ UNCHANGED << flowVars, envVars, runVars, exc, cause, localVars,
                  activeSession, storeVars, didRead >>

\* timeout_seconds=600 of load_data and load_to_duckdb: the blocked body is
\* interrupted with TimeoutError, inside its try block. A task without
\* timeout_seconds is not interrupted.
TimedOut(t) ==
  /\ st[t] = "Running" /\ pc = "blocked"
  /\ HasTimeout(t)
  /\ RaiseInTry("TimeoutError")
  /\ UNCHANGED << flowVars, envVars, localVars, activeSession, storeVars,
                  didRead >>

\* -------------------------------------------------------- the trigger
\* The next flow run: the daily schedule (cron="0 2 * * *") or a direct call,
\* elapsed days after the last one, the source files being newFiles by then.
NewRun(elapsed, newFiles) ==
  /\ flowState # "Running"
  /\ run < MaxRuns
  /\ day + elapsed <= MaxDay
  /\ \A p \in FilePaths : newFiles[p] \in FileVersions(p)
  /\ run' = run + 1
  /\ day' = day + elapsed
  /\ files' = newFiles
  /\ flowState' = "Running"
  /\ flowAttempt' = 0
  /\ flowpc' = 1
  /\ st' = [t \in Tasks |-> "Pending"]
  /\ runCount' = 0
  /\ out' = [t \in Tasks |-> None]
  /\ didRead' = [t \in Loaders |-> FALSE]
  /\ lastErr' = NoValue
  /\ cause' = NoValue
  /\ report' = None
  /\ UNCHANGED << cache, pc, exc, localVars, activeSession, tempDir, table,
                  viewDefined, conOpen, committed >>

\* ---------------------------------------------------- specification
Next ==
  \/ \E t \in Tasks : StartTask(t)
  \/ \E t \in Loaders : CacheHit(t)
  \/ \E t \in Tasks : RetryTask(t)
  \/ \E t \in Tasks : ExhaustTask(t)
  \/ FlowRetry
  \/ FlowFail
  \/ FlowComplete
  \/ \E t \in Loaders : load_data_getOrCreate(t)
  \/ \E t \in Loaders : load_data_read(t)
  \/ \E t \in Loaders : load_data_count(t)
  \/ \E t \in Loaders : load_data_finally(t)
  \/ enrich_and_flag_aml(out["aml"], out["currency"])
  \/ cross_ref_threshold(out["paysim"])
  \/ cross_ref_flag(out["enrich"])
  \/ load_to_duckdb_makedirs
  \/ load_to_duckdb_write(out["crossref"])
  \/ load_to_duckdb_connect
  \/ load_to_duckdb_createTable
  \/ load_to_duckdb_createView
  \/ load_to_duckdb_countAlerts
  \/ load_to_duckdb_countTotal
  \/ load_to_duckdb_finally
  \/ \E t \in Tasks : Blocked(t)
  \/ \E t \in Tasks : TimedOut(t)
  \/ \E elapsed \in 0..CacheExpirationDays :
       \E newFiles \in [FilePaths -> {1, 2}] : NewRun(elapsed, newFiles)

Spec == Init /\ [][Next]_vars

\* The orchestrator and a body that can take a step do take it: the process
\* does not stop while a step is possible.
FairSpec == Spec /\ WF_vars(Next)

\* ------------------------------------------------ the loaded tables
\* Tables the three loads can return, for the tasks after them: a first
\* transaction with every hour of the day (or a timestamp that does not
\* parse) or with an amount around the limit, then up to MaxMoreRows further
\* transactions; currency maps with no, one and two codes (two codes may
\* carry the same name); PaySim tables with and without fraud rows.
TimestampChoices ==
  {[hour |-> h, valid |-> TRUE] : h \in 0..23} \cup {[hour |-> 0, valid |-> FALSE]}

AmountChoices ==
  {HighAmountLimit - 1, HighAmountLimit, HighAmountLimit + 1, 2 * HighAmountLimit}

FirstRows ==
  {[Timestamp |-> ts, AmountPaid |-> 2 * HighAmountLimit,
    PaymentCurrency |-> "USD"] : ts \in TimestampChoices}
    \cup {[Timestamp |-> [hour |-> 3, valid |-> TRUE], AmountPaid |-> a,
           PaymentCurrency |-> "USD"] : a \in AmountChoices}

MoreRows ==
  {[Timestamp |-> [hour |-> 12, valid |-> TRUE], AmountPaid |-> 3000000,
    PaymentCurrency |-> "US Dollar"],
   [Timestamp |-> [hour |-> 21, valid |-> TRUE], AmountPaid |-> 500,
    PaymentCurrency |-> "Euro"]}

AmlTables ==
  {<< r >> \o more : r \in FirstRows,
                     more \in UNION {[1..n -> MoreRows] : n \in 0..MaxMoreRows}}

CurrencyLookups ==
  {<< >>,
   << [currency_code |-> "USD", currency_name |-> "US Dollar"] >>,
   << [currency_code |-> "USD", currency_name |-> "US Dollar"],
      [currency_code |-> "USN", currency_name |-> "US Dollar"] >>}

PaysimTables ==
  {PaysimFiles[v] : v \in DOMAIN PaysimFiles}
    \cup {<< [amount |-> 900000, isFraud |-> 1] >>}

\* The last attempt of the last flow run, when its three load_data calls have
\* returned: the flow function is at its call of enrich_and_flag_aml.
DataInit ==
  /\ run = MaxRuns
  /\ day = 0
  /\ files = [p \in FilePaths |-> 1]
  /\ flowState = "Running"
  /\ flowAttempt = FlowRetries
  /\ flowpc = 4
  /\ st = [t \in Tasks |-> IF t \in Loaders THEN "Succeeded" ELSE "Pending"]
  /\ runCount = 0
  /\ \E paysim \in PaysimTables, aml \in AmlTables, currency \in CurrencyLookups :
       out = [t \in Tasks |->
                CASE t = "paysim" -> [rows |-> paysim, session |-> NewSession(t)]
                  [] t = "aml" -> [rows |-> aml, session |-> NewSession(t)]
                  [] t = "currency" -> [rows |-> currency, session |-> NewSession(t)]
                  [] OTHER -> None]
  /\ pc = "idle"
  /\ exc = NoValue
  /\ df = None
  /\ using = NoValue
  /\ threshold = NoThreshold
  /\ conBound = FALSE
  /\ alert_count = 0
  /\ activeSession = NoValue
  /\ cache = [p \in FilePaths |-> None]
  /\ tempDir = FALSE
  /\ staged = NoTable
  /\ table = NoTable
  /\ viewDefined = FALSE
  /\ conOpen = FALSE
  /\ report = None
  /\ lastErr = NoValue
  /\ cause = NoValue
  /\ didRead = [t \in Loaders |-> TRUE]
  /\ committed = NoTable

\* The steps of the flow from there on (no load runs again, the flow run is
\* not retried and no run follows it).
DataNext ==
  \/ \E t \in Tasks : StartTask(t)
  \/ \E t \in Tasks : RetryTask(t)
  \/ \E t \in Tasks : ExhaustTask(t)
  \/ FlowFail
  \/ FlowComplete
  \/ enrich_and_flag_aml(out["aml"], out["currency"])
  \/ cross_ref_threshold(out["paysim"])
  \/ cross_ref_flag(out["enrich"])
  \/ load_to_duckdb_makedirs
  \/ load_to_duckdb_write(out["crossref"])
  \/ load_to_duckdb_connect
  \/ load_to_duckdb_createTable
  \/ load_to_duckdb_createView
  \/ load_to_duckdb_countAlerts
  \/ load_to_duckdb_countTotal
  \/ load_to_duckdb_finally
  \/ \E t \in Tasks : Blocked(t)
  \/ \E t \in Tasks : TimedOut(t)

DataSpec == DataInit /\ [][DataNext]_vars

\* ------------------------------------------------- load_data, called alone
\* One call load_data(source, file_path) from outside advanced_fraud_flow,
\* with any source kind and any location, from its scheduling to its final
\* state: a valid cached result under the call's cache key is returned without
\* running the body; otherwise the body reads file_path with the reader of
\* source, and returns and caches the table, or the call fails for good.
\* st, out and didRead tell of this call alone.
load_data_call(source, file_path) ==
  /\ flowState = "Running" /\ pc = "idle" /\ flowpc = 1
  /\ IF CacheValid(CacheKey(source, file_path))
     THEN /\ out' = [t \in Tasks |->
                       IF t = source
                       THEN cache[CacheKey(source, file_path)].table ELSE None]
          /\ st' = [t \in Tasks |-> IF t = source THEN "Succeeded" ELSE "Pending"]
          /\ didRead' = [t \in Loaders |-> FALSE]
          /\ UNCHANGED cache
     ELSE /\ didRead' = [t \in Loaders |-> t = source]
          /\ \/ /\ out' = [t \in Tasks |->
                             IF t = source
                             THEN [rows |-> ReadSource(source, files[file_path]),
                                   session |-> NewSession(source)]
                             ELSE None]
                /\ st' = [t \in Tasks |->
                            IF t = source THEN "Succeeded" ELSE "Pending"]
                /\ cache' = [cache EXCEPT ![CacheKey(source, file_path)] =
                               [table |-> out'[source], day |-> day]]
             \/ /\ out' = [t \in Tasks |-> None]
                /\ st' = [t \in Tasks |->
                            IF t = source THEN "FatallyFailed" ELSE "Pending"]
                /\ UNCHANGED cache
  /\ UNCHANGED << flowVars, envVars, flowpc, runCount, lastErr, pc, exc, cause,
                  localVars, activeSession, storeVars >>

\* Between two calls time passes.
Elapse(elapsed) ==
  /\ day + elapsed <= MaxDay
  /\ day' = day + elapsed
  /\ UNCHANGED << files, flowVars, runVars, pc, exc, cause, localVars,
                  activeSession, storeVars, didRead >>

LoaderNext ==
  \/ \E source \in Loaders : \E file_path \in FilePaths :
       load_data_call(source, file_path)
  \/ \E elapsed \in 1..CacheExpirationDays : Elapse(elapsed)

LoaderSpec == Init /\ [][LoaderNext]_vars

\* ------------------------------------------------------------ claims
Ended(t) == st[t] \in {"Succeeded", "Failed", "FatallyFailed"}
HasFailed(t) == st[t] \in {"Failed", "FatallyFailed"}

\* C1 (as claimed): whenever the commit task has failed, at whatever step,
\* after an earlier commit had succeeded, fraud_transactions is still the
\* table that the last successful commit left.
C1_CommitAllOrNothing ==
  (HasFailed("sink") /\ committed # NoTable) => table = committed

\* The retry budgets as the claim gives them.
ClaimedBudget(t) ==
  CASE t \in Loaders -> 3
    [] t = "enrich" -> 2
    [] t = "sink" -> 1
    [] t = "crossref" -> 0

\* A change of task t's state that the claimed state machine allows: Pending
\* to Running (or straight to Succeeded, for a loader's cache hit), Running to
\* Succeeded or Failed, Failed back to Pending while fewer than the budget's
\* retries were made, Failed to FatallyFailed once budget+1 executions failed.
ClaimedTransition(t) ==
  \/ st[t] = "Pending" /\ st'[t] = "Running" /\ runCount' <= ClaimedBudget(t) + 1
  \/ st[t] = "Pending" /\ st'[t] = "Succeeded" /\ t \in Loaders
  \/ st[t] = "Running" /\ st'[t] \in {"Succeeded", "Failed"}
  \/ st[t] = "Failed" /\ st'[t] = "Pending" /\ runCount <= ClaimedBudget(t)
  \/ st[t] = "Failed" /\ st'[t] = "FatallyFailed" /\ runCount = ClaimedBudget(t) + 1

NothingStartsNoWrite ==
  /\ \A t \in Tasks : st'[t] = "Running" => st[t] = "Running"
  /\ UNCHANGED << table, viewDefined >>

DeclaredPredecessors(t) ==
  CASE t = "enrich" -> {"aml", "currency"}
    [] t = "crossref" -> {"paysim", "enrich"}
    [] t = "sink" -> {"crossref"}
    [] OTHER -> {}

\* C4: a task that has entered Running in this attempt (whatever became of
\* it, retries included) has all its declared predecessors Succeeded.
C4_PredecessorsSucceeded ==
  \A t \in Tasks :
    st[t] # "Pending" => \A p \in DeclaredPredecessors(t) : st[p] = "Succeeded"

\* C4's case: the sink runs again after a failure, in a retried attempt.
C4_Witness ==
  /\ st["sink"] = "Running"
  /\ runCount = 2
  /\ flowAttempt > 0

\* C5 (as claimed): the loaders run concurrently: while one loader is Running,
\* another one that has not started can start.
C5_LoadersConcurrent ==
  \A a, b \in Loaders :
    (a # b /\ st[a] = "Running" /\ st[b] = "Pending" /\ flowpc <= 3)
      => ENABLED (StartTask(b) \/ CacheHit(b))

\* C6: a loader that leaves Pending while the cache holds a result for its
\* location stored less than a day ago goes to Succeeded with that result and
\* reads nothing; otherwise it goes to Running (and will read the source).
C6_CacheHitWithinWindow ==
  [][\A t \in Loaders :
       (run' = run /\ flowAttempt' = flowAttempt
          /\ st[t] = "Pending" /\ st'[t] # "Pending")
       => IF cache[FilePath(t)] # None /\ day - cache[FilePath(t)].day < 1
          THEN /\ st'[t] = "Succeeded"
               /\ out'[t] = cache[FilePath(t)].table
               /\ pc' = "idle"
               /\ didRead'[t] = FALSE
          ELSE st'[t] = "Running"]_vars

\* C6's case: a cache hit returned the earlier table although the file has
\* been replaced since, and the source was not read.
C6_Witness ==
  /\ st["aml"] = "Succeeded"
  /\ ~didRead["aml"]
  /\ out["aml"].rows # ReadSource("aml", files[FilePath("aml")])

\* C7 (as claimed): the exception that leaves a failed task is the one that
\* its body raised first.
C7_OriginalCause ==
  \A t \in Tasks : HasFailed(t) => lastErr = cause

\* C8 (as claimed): unless the engine itself failed, cross_ref has failed with
\* ThresholdUndefined exactly when the fraud-labelled subset is empty.
C8_ThresholdUndefined ==
  (Ended("crossref") /\ lastErr \notin {"QuantileError", "FlagError"})
    => ((HasFailed("crossref") /\ lastErr = "ThresholdUndefined")
          <=> FraudRows(out["paysim"].rows) = {})

C10_SinkReleases ==
  Ended("sink") => (~conOpen /\ ~tempDir /\ lastErr # "UnboundLocalError")

\* C11 (as claimed): every task that is Running leaves Running: it returns,
\* fails, or is forced to Failed by its timeout; none stays Running forever.
C11_NoTaskRunsForever ==
  \A t \in Tasks : (st[t] = "Running") ~> (st[t] \in {"Succeeded", "Failed"})

\* The rows of a table, as a sequence.
Enriched == out["enrich"].rows
Final == out["crossref"].rows

\* C12: every record of the enriched table has its high-amount flag 1 exactly
\* when its amount is above 1,000,000 (0 otherwise, so at 1,000,000 too), and
\* its AML alert flag equal to its high-amount flag.
C12_HighAmountFlag ==
  st["enrich"] = "Succeeded" =>
    \A i \in DOMAIN Enriched :
      /\ Enriched[i].high_amount_flag = (IF Enriched[i].AmountPaid > 1000000 THEN 1 ELSE 0)
      /\ Enriched[i].aml_alert_flag = Enriched[i].high_amount_flag

\* C12's case: an enriched record with amount exactly 1,000,000, not flagged.
C12_Witness ==
  /\ st["enrich"] = "Succeeded"
  /\ \E i \in DOMAIN Enriched :
       Enriched[i].AmountPaid = 1000000 /\ Enriched[i].high_amount_flag = 0

\* C13: every record of the enriched table whose hour is one of 0..23 has its
\* night flag 1 exactly when the hour is below 6 or above 21: hours 5 and 22
\* give 1, hours 6 and 21 give 0.
C13_NightFlag ==
  st["enrich"] = "Succeeded" =>
    \A i \in DOMAIN Enriched :
      Enriched[i].hour \in 0..23 =>
        /\ Enriched[i].is_night_transaction =
             (IF Enriched[i].hour < 6 \/ Enriched[i].hour > 21 THEN 1 ELSE 0)
        /\ Enriched[i].hour \in {5, 22} => Enriched[i].is_night_transaction = 1
        /\ Enriched[i].hour \in {6, 21} => Enriched[i].is_night_transaction = 0

\* C13's case: enriched records at the boundary hours 21 (day) and 22 (night)
\* exist.
C13_Witness ==
  /\ st["enrich"] = "Succeeded"
  /\ \E i \in DOMAIN Enriched :
       Enriched[i].hour = 22 /\ Enriched[i].is_night_transaction = 1
  /\ \E i \in DOMAIN Enriched :
       Enriched[i].hour = 21 /\ Enriched[i].is_night_transaction = 0

\* How often record r occurs in table s.
Occurrences(r, s) == Cardinality({i \in DOMAIN s : s[i] = r})

\* C14: after a successful commit the view high_risk_alerts holds exactly the
\* records of fraud_transactions with the AML alert flag or the cross-reference
\* flag set (each as often as the table holds it, no other record), in
\* descending order of amount, and the counts reported are the sizes of the
\* view and of the table.
C14_AlertView ==
  st["sink"] = "Succeeded" =>
    LET T == Rows(table)
        V == HighRiskAlerts(T)
    IN /\ viewDefined
       /\ \A i \in DOMAIN V : V[i].aml_alert_flag = 1 \/ V[i].paysim_high_risk = 1
       /\ \A i \in DOMAIN T :
            (T[i].aml_alert_flag = 1 \/ T[i].paysim_high_risk = 1)
              => Occurrences(T[i], V) = Occurrences(T[i], T)
       /\ \A i \in DOMAIN V : Occurrences(V[i], T) = Occurrences(V[i], V)
       /\ \A i, j \in DOMAIN V : i < j => V[i].AmountPaid >= V[j].AmountPaid
       /\ report # None
       /\ report.alerts = Len(V)
       /\ report.total = Len(T)

\* C14's case: a committed table that holds a record flagged by the
\* cross-reference alone, a record with no flag, and two alerts stored in
\* ascending order of amount.
C14_Witness ==
  /\ st["sink"] = "Succeeded"
  /\ \E i \in DOMAIN Rows(table) :
       Rows(table)[i].aml_alert_flag = 0 /\ Rows(table)[i].paysim_high_risk = 1
  /\ \E i \in DOMAIN Rows(table) :
       Rows(table)[i].aml_alert_flag = 0 /\ Rows(table)[i].paysim_high_risk = 0
  /\ \E i, j \in DOMAIN Rows(table) :
       /\ i < j
       /\ Rows(table)[j].paysim_high_risk = 1
       /\ Rows(table)[i].paysim_high_risk = 1
       /\ Rows(table)[i].AmountPaid < Rows(table)[j].AmountPaid

\* The scenario's inputs: the transaction of 2,000,000 in "USD" at 03:00, a
\* currency map with USD -> "US Dollar", and a PaySim table whose threshold
\* is 1,500,000.
ScenarioLoaded ==
  /\ \E i \in DOMAIN out["aml"].rows :
       out["aml"].rows[i] = [Timestamp |-> [hour |-> 3, valid |-> TRUE],
                             AmountPaid |-> 2000000, PaymentCurrency |-> "USD"]
  /\ \E i \in DOMAIN out["currency"].rows :
       out["currency"].rows[i] = [currency_code |-> "USD", currency_name |-> "US Dollar"]
  /\ ApproxQuantile(out["paysim"].rows) = {1500000}

\* The scenario's record with its flags (cross: the cross-reference flag).
IsScenarioRecord(r) ==
  /\ r.AmountPaid = 2000000 /\ r.PaymentCurrency = "USD" /\ r.hour = 3
  /\ r.is_night_transaction = 1 /\ r.high_amount_flag = 1 /\ r.aml_alert_flag = 1

\* C15: in the scenario the enriched table holds the record with the night,
\* high-amount and AML alert flags set, the final table holds it with the
\* cross-reference flag set, and after the commit it is in the alert view.
C15_EndToEnd ==
  ScenarioLoaded =>
    /\ st["enrich"] = "Succeeded" =>
         \E i \in DOMAIN Enriched : IsScenarioRecord(Enriched[i])
    /\ st["crossref"] = "Succeeded" =>
         \E i \in DOMAIN Final :
           IsScenarioRecord(Final[i]) /\ Final[i].paysim_high_risk = 1
    /\ st["sink"] = "Succeeded" =>
         \E i \in DOMAIN HighRiskAlerts(Rows(table)) :
           /\ IsScenarioRecord(HighRiskAlerts(Rows(table))[i])
           /\ HighRiskAlerts(Rows(table))[i].paysim_high_risk = 1

\* C15's case: the scenario has been run to its commit.
C15_Witness ==
  /\ ScenarioLoaded
  /\ st["sink"] = "Succeeded"
  /\ viewDefined

\* The currency map has no code twice.
UniqueCodes(cur) ==
  \A i, j \in DOMAIN cur : cur[i].currency_code = cur[j].currency_code => i = j

\* C19 (as claimed): with a currency map of unique codes, the enriched table
\* and the final table hold one record for each transaction loaded, in the
\* same number and with the same amounts.
C19_RowsPreserved ==
  UniqueCodes(out["currency"].rows) =>
    /\ st["enrich"] = "Succeeded" =>
         /\ Len(Enriched) = Len(out["aml"].rows)
         /\ \A i \in DOMAIN Enriched :
              Enriched[i].AmountPaid = out["aml"].rows[i].AmountPaid
    /\ st["crossref"] = "Succeeded" =>
         /\ Len(Final) = Len(out["aml"].rows)
         /\ \A i \in DOMAIN Final :
              Final[i].AmountPaid = out["aml"].rows[i].AmountPaid

\* C16 (as claimed): while a task after the loads runs, every table it was
\* given is bound to the session that is open.
C16_SessionOpenWhenConsumed ==
  \A t \in Tasks \ Loaders :
    st[t] = "Running" =>
      \A p \in DeclaredPredecessors(t) : out[p].session = activeSession

KindTables(s) == {ReadSource(s, v) : v \in {1, 2}}

\* C18 (as claimed): the table a call of load_data returned, from the cache or
\* from its own read, is a table of the source kind the call asked for.
C18_CacheHitSameKind ==
  \A s \in Loaders :
    (st[s] = "Succeeded" /\ out[s] # None) => out[s].rows \in KindTables(s)

=============================================================================
